---- MODULE Spec2Model ----
(***************************************************************************)
(* Model of mip.py: a capacitated facility-location script that loads      *)
(* three CSV tables, builds and solves a Basic MIP and an FTHR MIP with    *)
(* PuLP/CBC, extracts assignments and metrics, and prints/exports a        *)
(* comparison.                                                             *)
(*                                                                         *)
(* Units.  The script works in floating point; the model works in          *)
(* integers:                                                               *)
(*   - a distance is a number of 1/KM kilometres (KM = 10: tenths of km);  *)
(*   - an FTHR value is a number of 1/PCT (PCT = 100: percent);            *)
(*   - transport_cost = distance * TRANSPORT_COST_PER_KM is therefore in   *)
(*     units of 1/KM THB, and an objective value in 1/(KM*PCT) THB.        *)
(* The solver (CBC behind pulp) is not part of the script: it is an        *)
(* oracle that returns a status and a value for every variable.            *)
(***************************************************************************)
EXTENDS Integers, FiniteSets, Sequences, TLC

\* ------------------------------------------------------------- bounds
MaxCustomers == 2
MaxResidues == 1
MaxDistance == 220

\* ------------------------------------------------------------- units
\* Distance units per kilometre (the distance_km column, line 35).
KM == 10
\* The float 1.0 of an FTHR value (1 - fthr, line 156), in percent.
PCT == 100
\* The float 1 a solver value is compared with (lines 116-118), in units of the
\* solver's tolerance: ONE - 1 is the value 1 - 1e-6.
ONE == 1000000

\* Line 32.
TRANSPORT_COST_PER_KM == 15

Variants == {"basic", "fthr"}
DCIds == {1, 2}
DemandValues == {10, 30}
CapacityTables == {<<40, 70>>, <<70, 70>>}
FixedCostValues == {0, 60}
DistanceValues == {0, 4 * KM}

\* ------------------------------------------------------------- helpers
RECURSIVE SumOver(_, _)
SumOver(S, f) ==
    IF S = {} THEN 0
    ELSE LET e == CHOOSE e \in S : TRUE
         IN  f[e] + SumOver(S \ {e}, f)

SetMax(S) == CHOOSE m \in S : \A k \in S : k <= m

\* ------------------------------------------------------------- calculate_fthr
calculate_fthr_strict(d) ==
    IF d < 5 * KM THEN 95
    ELSE IF d < 10 * KM THEN 85
    ELSE IF d < 15 * KM THEN 70
    ELSE IF d < 20 * KM THEN 55
    ELSE 40

\* Lines 8-19, in percent.
calculate_fthr(d) ==
    IF d <= 5 * KM THEN 95
    ELSE IF d <= 10 * KM THEN 85
    ELSE IF d <= 15 * KM THEN 70
    ELSE IF d <= 20 * KM THEN 55
    ELSE 40

\* ------------------------------------------------------------- state
VARIABLES
    csv,            \* the three input files: demand.csv, dcs.csv, matrix.csv
    pc,             \* <<step, variant>>: the next statement group of the script
    error,          \* the exception that ended the run, or NoError
    steps,          \* the statement groups this run has completed
    customers, dcs, demand, capacity, fixed_cost,
    distance, transport_cost, fthr,
    lp_status,      \* per variant: model.status as the solver left it
    x, y,           \* per variant: the solver's value for every variable
    status, total_cost, opened_dcs, assignments,
    total_distance, avg_distance, avg_fthr,
    fthr_expected_redelivery,
    comparison,     \* the 'Difference' column of comparison_data
    prev,           \* what the previous run of the script reported
    probe           \* calculate_fthr called directly: arguments and results

dataVars == <<customers, dcs, demand, capacity, fixed_cost,
              distance, transport_cost, fthr>>
solverVars == <<lp_status, x, y>>
resultVars == <<status, total_cost, opened_dcs, assignments>>
metricVars == <<total_distance, avg_distance, avg_fthr, fthr_expected_redelivery>>
vars == <<csv, pc, error, steps, dataVars, solverVars, resultVars, metricVars,
          comparison, prev, probe>>

NoError == [type |-> "none", line |-> 0]
Empty == <<>>
NoComparison == [valid |-> FALSE]
NoPrev == [valid |-> FALSE, residues |-> 0]
NoProbe == [a |-> 0, b |-> 0, ra |-> 0, rb |-> 0]

\* ------------------------------------------------------------- inputs
\* The family gives every customer the same row of distances, so customers
\* differ by demand alone and the demand column is listed in ascending order.
DemandTables ==
    UNION {{d \in [1..n -> DemandValues] :
               \A i \in 1..n : \A k \in 1..n : i <= k => d[i] <= d[k]} :
           n \in 0..MaxCustomers}

DcTables ==
    {[j \in DCIds |-> [capacity |-> c[j], fixed_cost |-> f[j]]] :
        c \in CapacityTables, f \in [DCIds -> FixedCostValues]}

MatrixTables(C) ==
    {[p \in C \X DCIds |-> g[p[2]]] : g \in [DCIds -> DistanceValues]}

Family ==
    UNION {{[demand |-> d, dcs |-> t, matrix |-> m] :
               t \in DcTables, m \in MatrixTables(DOMAIN d)} : d \in DemandTables}

UniformDcs(cap, fc) == [j \in DCIds |-> [capacity |-> cap, fixed_cost |-> fc]]
UniformMatrix(C, d) == [p \in C \X DCIds |-> d]

\* Section 8 of the specification: Scenarios A, B and C.
ScenarioA ==
    [demand |-> <<10, 20, 5>>, dcs |-> UniformDcs(50, 100),
     matrix |-> UniformMatrix(1..3, 4 * KM)]
ScenarioB ==
    [demand |-> <<10, 20, 5>>, dcs |-> UniformDcs(50, 100),
     matrix |-> UniformMatrix(1..3, 12 * KM)]
ScenarioC ==
    [demand |-> <<50>>, dcs |-> UniformDcs(20, 100),
     matrix |-> UniformMatrix(1..1, 4 * KM)]
\* The nearer DC costs more to open: the two objectives choose differently.
ScenarioDiverge ==
    [demand |-> <<10>>,
     dcs |-> (1 :> [capacity |-> 50, fixed_cost |-> 0]
              @@ 2 :> [capacity |-> 50, fixed_cost |-> 150]),
     matrix |-> (<<1, 1>> :> 12 * KM @@ <<1, 2>> :> 4 * KM)]
\* The customers prefer different DCs.
ScenarioCrossed ==
    [demand |-> <<20, 20>>, dcs |-> UniformDcs(30, 60),
     matrix |-> (<<1, 1>> :> 4 * KM @@ <<1, 2>> :> 21 * KM
                 @@ <<2, 1>> :> 21 * KM @@ <<2, 2>> :> 4 * KM)]

\* Inputs the input schema (specification section 6) excludes.
NegativeDemand ==
    [demand |-> <<-5, 10>>, dcs |-> UniformDcs(30, 60),
     matrix |-> UniformMatrix(1..2, 4 * KM)]
NegativeCapacity ==
    [demand |-> <<10>>,
     dcs |-> (1 :> [capacity |-> -30, fixed_cost |-> 60]
              @@ 2 :> [capacity |-> 30, fixed_cost |-> 60]),
     matrix |-> UniformMatrix(1..1, 4 * KM)]
NegativeDistance ==
    [demand |-> <<10>>, dcs |-> UniformDcs(30, 60),
     matrix |-> (<<1, 1>> :> -(4 * KM) @@ <<1, 2>> :> 4 * KM)]
MissingPair ==
    [demand |-> <<10, 20>>, dcs |-> UniformDcs(30, 60),
     matrix |-> (<<1, 1>> :> 4 * KM @@ <<1, 2>> :> 4 * KM @@ <<2, 1>> :> 4 * KM)]
MissingCustomer ==
    [demand |-> <<10>>, dcs |-> UniformDcs(30, 60),
     matrix |-> UniformMatrix(1..2, 4 * KM)]

Scenarios ==
    {ScenarioA, ScenarioB, ScenarioC, ScenarioDiverge, ScenarioCrossed,
     NegativeDemand, NegativeCapacity, NegativeDistance, MissingPair,
     MissingCustomer}

Inputs == Family \cup Scenarios

\* ------------------------------------------------------------- initial state
Unbound == [v \in Variants |-> Empty]
Zero == [v \in Variants |-> 0]

Fresh ==
    /\ error = NoError
    /\ steps = {}
    /\ customers = {} /\ dcs = {}
    /\ demand = Empty /\ capacity = Empty /\ fixed_cost = Empty
    /\ distance = Empty /\ transport_cost = Empty /\ fthr = Empty
    /\ lp_status = [v \in Variants |-> "Not Solved"]
    /\ x = Unbound /\ y = Unbound
    /\ status = [v \in Variants |-> "unbound"]
    /\ total_cost = Zero
    /\ opened_dcs = [v \in Variants |-> {}]
    /\ assignments = Unbound
    /\ total_distance = Zero
    /\ avg_distance = Unbound /\ avg_fthr = Unbound
    /\ fthr_expected_redelivery = 0
    /\ comparison = NoComparison

Init ==
    /\ csv \in Inputs
    /\ pc = <<"load", "-">>
    /\ Fresh
    /\ prev = NoPrev
    /\ probe = NoProbe


\* ------------------------------------------------------------- control
Goto(step, v) == pc' = <<step, v>>
Did(S) == steps' = steps \cup S
Raise(type, line) ==
    /\ pc' = <<"crashed", "-">>
    /\ error' = [type |-> type, line |-> line]

\* Source line of a statement of the Basic block and of its FTHR twin.
Line(v, basicLine, fthrLine) == IF v = "basic" THEN basicLine ELSE fthrLine

\* ------------------------------------------------------------- lines 26-60
\* Read the three files and build the dictionaries.  Nothing is validated.
LoadData ==
    /\ pc = <<"load", "-">>
    /\ customers' = DOMAIN csv.demand
    /\ dcs' = DOMAIN csv.dcs
    /\ demand' = csv.demand
    /\ capacity' = [j \in DOMAIN csv.dcs |-> csv.dcs[j].capacity]
    /\ fixed_cost' = [j \in DOMAIN csv.dcs |-> csv.dcs[j].fixed_cost]
    /\ distance' = csv.matrix
    /\ transport_cost' =
           [p \in DOMAIN csv.matrix |-> csv.matrix[p] * TRANSPORT_COST_PER_KM]
    /\ fthr' = [p \in DOMAIN csv.matrix |-> calculate_fthr(csv.matrix[p])]
    /\ Goto("build", "basic")
    /\ Did({<<"load", "-">>})
    /\ UNCHANGED <<csv, error, solverVars, resultVars, metricVars,
                   comparison, prev, probe>>

\* ------------------------------------------------------------- the MIP
AllPairs == customers \X dcs

\* Constraint 1 (lines 86-90, 161-165): every customer on exactly one DC.
Constraint1(xs) ==
    \A i \in customers : SumOver(dcs, [j \in dcs |-> xs[<<i, j>>]]) = 1

\* Constraint 2 (lines 93-98, 168-173): load within capacity[j] * open[j].
Constraint2(xs, ys) ==
    \A j \in dcs :
        SumOver(customers, [i \in customers |-> demand[i] * xs[<<i, j>>]])
            <= capacity[j] * ys[j]

\* Constraint 3 (lines 101-106, 176-181): assign[i][j] <= open[j].
Constraint3(xs, ys) ==
    \A i \in customers : \A j \in dcs : xs[<<i, j>>] <= ys[j]

ObjectiveSubtractsFthrTerm(v, xs, ys) ==
    SumOver(dcs, [j \in dcs |-> fixed_cost[j] * KM * PCT * ys[j]])
    + SumOver(AllPairs, [p \in AllPairs |-> transport_cost[p] * PCT * xs[p]])
    - (IF v = "fthr"
       THEN SumOver(AllPairs,
                [p \in AllPairs |-> transport_cost[p] * (PCT - fthr[p]) * xs[p]])
       ELSE 0)

\* The objective (lines 79-83 and 152-158) at a point, in 1/(KM*PCT) THB.
Objective(v, xs, ys) ==
    SumOver(dcs, [j \in dcs |-> fixed_cost[j] * KM * PCT * ys[j]])
    + SumOver(AllPairs, [p \in AllPairs |-> transport_cost[p] * PCT * xs[p]])
    + (IF v = "fthr"
       THEN SumOver(AllPairs,
                [p \in AllPairs |-> transport_cost[p] * (PCT - fthr[p]) * xs[p]])
       ELSE 0)

\* Lines 70-106 and 143-181: the LpProblem is created, then the objective and
\* the constraints are added; transport_cost[(i, j)] raises KeyError for a pair
\* matrix.csv does not list.
Build(v) ==
    /\ pc = <<"build", v>>
    /\ IF AllPairs \subseteq DOMAIN transport_cost
       THEN /\ Goto("solve", v)
            /\ Did({<<"LpProblem", v>>, <<"build", v>>})
            /\ UNCHANGED error
       ELSE /\ Raise("KeyError", Line(v, 81, 154))
            /\ Did({<<"LpProblem", v>>})
    /\ UNCHANGED <<csv, dataVars, solverVars, resultVars, metricVars,
                   comparison, prev, probe>>

\* ------------------------------------------------------------- the solver
\* Binary points of the model built for the loaded data.
Points == [x : [AllPairs -> {0, 1}], y : [dcs -> {0, 1}]]

Feasible(s) == Constraint1(s.x) /\ Constraint2(s.x, s.y) /\ Constraint3(s.x, s.y)

\* The points that put every customer on one DC: only these can satisfy
\* constraint 1, so the feasible points are sought among them.
OneDcEach ==
    {[x |-> [p \in AllPairs |-> IF a[p[1]] = p[2] THEN 1 ELSE 0], y |-> ys] :
        a \in [customers -> dcs], ys \in [dcs -> {0, 1}]}

FeasiblePoints == {s \in OneDcEach : Feasible(s)}

OptimalPoints(v) ==
    LET F == FeasiblePoints
        cost == [s \in F |-> Objective(v, s.x, s.y)]
    IN  {s \in F : \A t \in F : cost[s] <= cost[t]}

\* The variables an optimal point sets to 1: the ones whose reported value the
\* solver's tolerance can leave just below 1.  (A value just above 0 compares
\* unequal to 1 as 0 does, and no statement of the script reads a value in any
\* other way, so such residues are not represented.)
OnesOf(s) ==
    [x |-> {p \in AllPairs : s.x[p] = 1}, y |-> {j \in dcs : s.y[j] = 1}]

ValueReported(bit, residue) == IF residue THEN ONE - 1 ELSE bit * ONE

IsResidue(val) == val # 0 /\ val # ONE

\* The values that have carried a residue so far, in this run and in the one
\* before it (at most MaxResidues do).
ResidueCount ==
    prev.residues +
    SumOver(Variants,
        [v \in Variants |->
            Cardinality({p \in DOMAIN x[v] : IsResidue(x[v][p])})
            + Cardinality({j \in DOMAIN y[v] : IsResidue(y[v][j])})])

Residues(s) ==
    {r \in [x : SUBSET OnesOf(s).x, y : SUBSET OnesOf(s).y] :
        Cardinality(r.x) + Cardinality(r.y) + ResidueCount <= MaxResidues}

Round(val) == IF 2 * val >= ONE THEN 1 ELSE 0

\* Line 109 and line 184: model.solve(PULP_CBC_CMD(msg=0)).  A feasible model
\* comes back Optimal with an optimal point, each value within tolerance of
\* 0 or 1; an infeasible one comes back Infeasible with whatever values the
\* solver last held.
Solve(v) ==
    /\ pc = <<"solve", v>>
    /\ IF \E s \in OneDcEach : Feasible(s)
       THEN \E s \in OptimalPoints(v) : \E r \in Residues(s) :
               /\ lp_status' = [lp_status EXCEPT ![v] = "Optimal"]
               /\ x' = [x EXCEPT ![v] =
                           [p \in AllPairs |-> ValueReported(s.x[p], p \in r.x)]]
               /\ y' = [y EXCEPT ![v] =
                           [j \in dcs |-> ValueReported(s.y[j], j \in r.y)]]
       ELSE \E s \in Points :
               /\ lp_status' = [lp_status EXCEPT ![v] = "Infeasible"]
               /\ x' = [x EXCEPT ![v] = [p \in AllPairs |-> s.x[p] * ONE]]
               /\ y' = [y EXCEPT ![v] = [j \in dcs |-> s.y[j] * ONE]]
    /\ Goto("extract", v)
    /\ Did({<<"solve", v>>})
    /\ UNCHANGED <<csv, error, dataVars, resultVars, metricVars,
                   comparison, prev, probe>>

\* ------------------------------------------------------------- extraction
\* pulp.value(v) == 1: the float comparison of lines 116-118 and 191-193.
IsOne(val) == val = ONE

TotalCostOmitsFixedCost(v) ==
    SumOver(AllPairs,
        [p \in AllPairs |->
            transport_cost[p] * (PCT + (IF v = "fthr" THEN PCT - fthr[p] ELSE 0))
                * Round(x[v][p])])

\* pulp.value(model.objective), lines 115 and 190.  The float it returns is
\* within the solver's tolerance of the objective at the rounded point; the
\* model takes it at that point.
TotalCost(v) ==
    Objective(v, [p \in AllPairs |-> Round(x[v][p])], [j \in dcs |-> Round(y[v][j])])

\* [j for j in dcs if pulp.value(y[j]) == 1], lines 116 and 191.
OpenedDcs(v) == {j \in dcs : IsOne(y[v][j])}

\* {i: j for i in customers for j in dcs if pulp.value(x[(i, j)]) == 1},
\* lines 117-118 and 192-193: a customer with no value equal to 1 gets no key,
\* and of several the last DC in iteration order stays.
Assignments(v) ==
    LET hits(i) == {j \in dcs : IsOne(x[v][<<i, j>>])}
    IN  [i \in {c \in customers : hits(c) # {}} |-> SetMax(hits(i))]

\* Lines 114-118 and 189-193, run whatever the status is.
Extract(v) ==
    /\ pc = <<"extract", v>>
    /\ status' = [status EXCEPT ![v] = lp_status[v]]
    /\ total_cost' = [total_cost EXCEPT ![v] = TotalCost(v)]
    /\ opened_dcs' = [opened_dcs EXCEPT ![v] = OpenedDcs(v)]
    /\ assignments' = [assignments EXCEPT ![v] = Assignments(v)]
    /\ Goto("metrics", v)
    /\ Did({<<"extract", v>>})
    /\ UNCHANGED <<csv, error, dataVars, solverVars, metricVars,
                   comparison, prev, probe>>

\* ------------------------------------------------------------- metrics
ExpectedRedeliveryUsesFthr(a) ==
    SumOver(customers,
        [i \in customers |-> transport_cost[<<i, a[i]>>] * fthr[<<i, a[i]>>]])

\* Lines 201-204, in 1/(KM*PCT) THB.
ExpectedRedelivery(a) ==
    SumOver(customers,
        [i \in customers |->
            transport_cost[<<i, a[i]>>] * (PCT - fthr[<<i, a[i]>>])])

\* Lines 121-133 and 196-215: compute the metrics, then print the variant's
\* status and metrics.  assignments[i] raises KeyError for a customer without
\* a key; the averages divide by len(customers).
Metrics(v) ==
    /\ pc = <<"metrics", v>>
    /\ LET a == assignments[v]
       IN  IF ~(customers \subseteq DOMAIN a)
           THEN /\ Raise("KeyError", Line(v, 121, 196))
                /\ UNCHANGED <<steps, metricVars>>
           ELSE IF Cardinality(customers) = 0
           THEN /\ Raise("ZeroDivisionError", Line(v, 122, 197))
                /\ total_distance' = [total_distance EXCEPT ![v] = 0]
                /\ UNCHANGED <<steps, avg_distance, avg_fthr,
                               fthr_expected_redelivery>>
           ELSE LET td == SumOver(customers,
                              [i \in customers |-> distance[<<i, a[i]>>]])
                    tf == SumOver(customers,
                              [i \in customers |-> fthr[<<i, a[i]>>]])
                    n == Cardinality(customers)
                IN  /\ total_distance' = [total_distance EXCEPT ![v] = td]
                    /\ avg_distance' = [avg_distance EXCEPT ![v] = <<td, n>>]
                    /\ avg_fthr' = [avg_fthr EXCEPT ![v] = <<tf, n>>]
                    /\ fthr_expected_redelivery' =
                           IF v = "fthr" THEN ExpectedRedelivery(a)
                           ELSE fthr_expected_redelivery
                    /\ IF v = "basic" THEN Goto("build", "fthr")
                       ELSE Goto("compare", "-")
                    /\ Did({<<"metrics", v>>, <<"report", v>>})
                    /\ UNCHANGED error
    /\ UNCHANGED <<csv, dataVars, solverVars, resultVars, comparison, prev, probe>>

\* ------------------------------------------------------------- comparison
\* Lines 222-346: build and print the comparison table, then write the five
\* output files.  Line 248 divides by basic_total_cost.
Compare ==
    /\ pc = <<"compare", "-">>
    /\ IF total_cost["basic"] = 0
       THEN /\ Raise("ZeroDivisionError", 248)
            /\ UNCHANGED <<steps, comparison>>
       ELSE /\ comparison' =
                   [valid |-> TRUE,
                    cost |-> total_cost["fthr"] - total_cost["basic"],
                    n_dcs |-> Cardinality(opened_dcs["fthr"])
                              - Cardinality(opened_dcs["basic"]),
                    total_distance |-> total_distance["fthr"]
                                       - total_distance["basic"],
                    fthr_sum |-> avg_fthr["fthr"][1] - avg_fthr["basic"][1]]
            /\ Goto("done", "-")
            /\ Did({<<"compare", "-">>, <<"export", "-">>})
            /\ UNCHANGED error
    /\ UNCHANGED <<csv, dataVars, solverVars, resultVars, metricVars, prev, probe>>

\* ------------------------------------------------------------- running again
\* The script is run once more on the same three files; what the finished run
\* reported for one of the variants is kept for comparison.
Rerun ==
    /\ pc = <<"done", "-">>
    /\ \E v \in Variants :
           prev' = [valid |-> TRUE, residues |-> ResidueCount,
                    variant |-> v, status |-> status[v],
                    total_cost |-> total_cost[v], opened_dcs |-> opened_dcs[v]]
    /\ pc' = <<"load", "-">>
    /\ error' = NoError
    /\ steps' = {}
    /\ customers' = {} /\ dcs' = {}
    /\ demand' = Empty /\ capacity' = Empty /\ fixed_cost' = Empty
    /\ distance' = Empty /\ transport_cost' = Empty /\ fthr' = Empty
    /\ lp_status' = [v \in Variants |-> "Not Solved"]
    /\ x' = Unbound /\ y' = Unbound
    /\ status' = [v \in Variants |-> "unbound"]
    /\ total_cost' = Zero
    /\ opened_dcs' = [v \in Variants |-> {}]
    /\ assignments' = Unbound
    /\ total_distance' = Zero
    /\ avg_distance' = Unbound /\ avg_fthr' = Unbound
    /\ fthr_expected_redelivery' = 0
    /\ comparison' = NoComparison
    /\ UNCHANGED <<csv, probe>>

\* ------------------------------------------------------------- specification
Next ==
    \/ LoadData
    \/ \E v \in Variants : Build(v)
    \/ \E v \in Variants : Solve(v)
    \/ \E v \in Variants : Extract(v)
    \/ \E v \in Variants : Metrics(v)
    \/ Compare

Spec == Init /\ [][Next]_vars

NextRerun == Next \/ Rerun

SpecRerun == Init /\ [][NextRerun]_vars

\* ------------------------------------------------------------- calculate_fthr alone
InitFthr ==
    /\ csv = ScenarioA
    /\ pc = <<"probe", "-">>
    /\ Fresh
    /\ prev = NoPrev
    /\ probe \in [a : 0..MaxDistance, b : 0..MaxDistance, ra : {0}, rb : {0}]

ProbeFthr ==
    /\ pc = <<"probe", "-">>
    /\ probe' = [probe EXCEPT !.ra = calculate_fthr(probe.a),
                              !.rb = calculate_fthr(probe.b)]
    /\ pc' = <<"probed", "-">>
    /\ UNCHANGED <<csv, error, steps, dataVars, solverVars, resultVars,
                   metricVars, comparison, prev>>

NextFthr == ProbeFthr

SpecFthr == InitFthr /\ [][NextFthr]_vars

\* ------------------------------------------------------------- the script's names
basic_status == status["basic"]
fthr_status == status["fthr"]
basic_total_cost == total_cost["basic"]
fthr_total_cost == total_cost["fthr"]
basic_opened_dcs == opened_dcs["basic"]
fthr_opened_dcs == opened_dcs["fthr"]
basic_assignments == assignments["basic"]
fthr_assignments == assignments["fthr"]

\* ------------------------------------------------------------- vocabulary of the claims
Extracted(v) == <<"extract", v>> \in steps
Reported(v) == <<"report", v>> \in steps
Terminated == pc[1] \in {"done", "crashed"}
SolvedOptimal(v) == Extracted(v) /\ status[v] = "Optimal"

\* The input schema of specification section 6.
Admissible(c) ==
    /\ DOMAIN c.demand # {}
    /\ \A i \in DOMAIN c.demand : c.demand[i] >= 0
    /\ \A j \in DOMAIN c.dcs : c.dcs[j].capacity > 0 /\ c.dcs[j].fixed_cost >= 0
    /\ DOMAIN c.matrix = (DOMAIN c.demand) \X (DOMAIN c.dcs)
    /\ \A p \in DOMAIN c.matrix : c.matrix[p] >= 0

\* Every pair of the input at the same distance d.
UniformDistance(c, d) ==
    /\ DOMAIN c.matrix = (DOMAIN c.demand) \X (DOMAIN c.dcs)
    /\ \A p \in DOMAIN c.matrix : c.matrix[p] = d

ExactValues(v) ==
    /\ \A p \in DOMAIN x[v] : x[v][p] \in {0, ONE}
    /\ \A j \in DOMAIN y[v] : y[v][j] \in {0, ONE}

AssignedDcs(v) == {assignments[v][i] : i \in DOMAIN assignments[v]}

Load(v, j) ==
    LET on == {i \in DOMAIN assignments[v] : assignments[v][i] = j}
    IN  SumOver(on, [i \in on |-> demand[i]])

\* ------------------------------------------------------------- C1
\* C1: for every admissible instance and every solve that came back Optimal,
\* of either variant, the extracted assignment (a) has every customer as a
\* key, (b) loads no DC beyond its capacity and (c) uses only DCs of the
\* reported opened list.
C1_AssignmentMeetsConstraints ==
    \A v \in Variants :
        (SolvedOptimal(v) /\ Admissible(csv)) =>
            /\ DOMAIN assignments[v] = customers
            /\ \A j \in dcs : Load(v, j) <= capacity[j]
            /\ AssignedDcs(v) \subseteq opened_dcs[v]

\* ------------------------------------------------------------- C2
Bands == {95, 85, 70, 55, 40}

BandOf(d, r) ==
    /\ (d <= 5 * KM) => r = 95
    /\ (5 * KM < d /\ d <= 10 * KM) => r = 85
    /\ (10 * KM < d /\ d <= 15 * KM) => r = 70
    /\ (15 * KM < d /\ d <= 20 * KM) => r = 55
    /\ (20 * KM < d) => r = 40

\* C2: calculate_fthr is defined for every distance >= 0, returns one of the
\* five rates, is non-increasing in the distance, and puts the distances 5, 10,
\* 15 and 20 km themselves in the lower band.
C2_FthrSchedule ==
    pc = <<"probed", "-">> =>
        /\ probe.ra \in Bands /\ probe.rb \in Bands
        /\ BandOf(probe.a, probe.ra) /\ BandOf(probe.b, probe.rb)
        /\ (probe.a <= probe.b => probe.ra >= probe.rb)

C2_Witness ==
    /\ pc = <<"probed", "-">>
    /\ probe.a = 5 * KM /\ probe.ra = 95
    /\ probe.b = 5 * KM + 1 /\ probe.rb = 85

\* ------------------------------------------------------------- C3
\* C3: when a solve of an admissible instance comes back with a status other
\* than Optimal, no assignment is extracted for that variant, none of its
\* metrics is computed and the run raises no exception.
C3_NoExtractionAfterFailedSolve ==
    \A v \in Variants :
        (Admissible(csv) /\ <<"solve", v>> \in steps /\ lp_status[v] # "Optimal") =>
            /\ ~Extracted(v)
            /\ <<"metrics", v>> \notin steps
            /\ error = NoError

\* ------------------------------------------------------------- C4
FailedIn(v) ==
    \/ SolvedOptimal(v) /\ error.line \in
           (IF v = "basic" THEN {121, 122} ELSE {196, 197})
    \/ Extracted(v) /\ status[v] # "Optimal"

\* C4: a failure in one variant's stage never keeps the other variant from
\* being built, solved and reported: on an admissible input, a run that has
\* ended with the Basic stage failed has still reported FTHR, and the other
\* way round.
C4_IsolatedFailureDomains ==
    (Admissible(csv) /\ Terminated) =>
        /\ FailedIn("basic") => Reported("fthr")
        /\ FailedIn("fthr") => Reported("basic")

\* ------------------------------------------------------------- C5
\* C5: for every Optimal solve the reported opened-DC list is exactly the set
\* of DCs with a customer assigned.  Stated here for admissible inputs and
\* solver values that are exactly 0 or 1, where it already fails.
C5_OpenIffAssigned ==
    \A v \in Variants :
        (SolvedOptimal(v) /\ ExactValues(v) /\ Admissible(csv)) =>
            opened_dcs[v] = AssignedDcs(v)

\* ------------------------------------------------------------- C6
NonNegativeDistances == \A p \in DOMAIN csv.matrix : csv.matrix[p] >= 0

AddedTerm(n, d) ==
    n * (d * TRANSPORT_COST_PER_KM) * (PCT - calculate_fthr(d))

C8_InvalidInputRejectedBeforeBuild ==
    ~Admissible(csv) =>
        /\ \A v \in Variants : <<"LpProblem", v>> \notin steps
        /\ error.type # "ZeroDivisionError"

\* ------------------------------------------------------------- C9
\* This run has rebuilt and solved again the variant noted from the run before,
\* both times to Optimal, on an admissible input.
SolvedTwice(v) ==
    /\ prev.valid /\ prev.variant = v /\ prev.status = "Optimal"
    /\ SolvedOptimal(v)
    /\ Admissible(csv)

LargestValueDc(v, i) ==
    CHOOSE j \in dcs :
        \A k \in dcs :
            \/ x[v][<<i, k>>] < x[v][<<i, j>>]
            \/ x[v][<<i, k>>] = x[v][<<i, j>>] /\ j <= k

\* C10: for every Optimal result on an admissible instance, values within
\* tolerance of 0 or 1 included, extraction leaves every customer with exactly
\* one DC, the one of largest value.
C10_ExtractionToleratesResidues ==
    \A v \in Variants :
        (SolvedOptimal(v) /\ Admissible(csv)) =>
            \A i \in customers :
                /\ i \in DOMAIN assignments[v]
                /\ assignments[v][i] = LargestValueDc(v, i)

====
